---- MODULE Spec2Model ----
(***************************************************************************)
(* Model of the todo backend: the Todo mongoose model (schema, pre-save    *)
(* hook, toggleCompletion, getTodosByUser, getUserStats) and the todo      *)
(* router (list, stats, get, create, update, toggle, delete, delete all    *)
(* completed).  The store is the todos collection.  A handler that awaits  *)
(* two store operations (update, toggle: findOne then save; list: find     *)
(* then countDocuments) is two steps, and other requests may run between.  *)
(***************************************************************************)
EXTENDS Integers, Sequences, FiniteSets, TLC

\* ---------------------------------------------------------------- bounds
MaxTodos == 2
MaxClock == 5
MaxInflight == 2
\* the concurrent runs: todos created, and the last clock value
ConcurrentTodos == 1
ConcurrentClock == 5

\* ------------------------------------------------------ program constants
TitleMax == 200
DescMax == 1000
TagMax == 20
LimitMax == 100
DefaultPage == 1
DefaultLimit == 10
\* null of a Date field (dueDate, completedAt); real instants are >= 1
NoDate == 0

Users == {"u1", "u2"}
NoUser == "nobody"
\* bearer tokens: one valid token per user, and one that does not verify
TokenOf == [u \in Users |-> IF u = "u1" THEN "tok1" ELSE "tok2"]
BadToken == "bad"
Tokens == {TokenOf[u] : u \in Users} \cup {BadToken}

Priorities == {"low", "medium", "high"}
SortFields == {"createdAt", "updatedAt", "dueDate", "priority", "title"}
SortOrders == {"asc", "desc"}
TodoIds == 1..MaxTodos

\* ------------------------------------------------------------- strings
\* A string is a tuple of one-character strings.
RECURSIVE TrimLeft(_)
TrimLeft(s) ==
  IF s # <<>> /\ Head(s) = " " THEN TrimLeft(Tail(s)) ELSE s

RECURSIVE TrimRight(_)
TrimRight(s) ==
  IF s # <<>> /\ s[Len(s)] = " " THEN TrimRight(SubSeq(s, 1, Len(s) - 1)) ELSE s

Trim(s) == TrimRight(TrimLeft(s))

TrimAll(ts) == [i \in 1..Len(ts) |-> Trim(ts[i])]

CharRank(c) == CASE c = " " -> 0 [] c = "a" -> 1 [] c = "b" -> 2
                 [] c = "c" -> 3 [] c = "d" -> 4 [] c = "t" -> 5 [] OTHER -> 6

RECURSIVE StrLess(_, _)
StrLess(s, t) ==
  IF t = <<>> THEN FALSE
  ELSE IF s = <<>> THEN TRUE
  ELSE IF Head(s) # Head(t) THEN CharRank(Head(s)) < CharRank(Head(t))
  ELSE StrLess(Tail(s), Tail(t))

\* 'high' < 'low' < 'medium' as strings
PriorityRank(p) == CASE p = "high" -> 1 [] p = "low" -> 2 [] OTHER -> 3

\* ISO 8601 strings of the request bodies and the instants they denote
ISODates == {"2030-01-15T10:00:00.000Z", "2031-06-01T00:00:00.000Z"}
CastDate(s) == IF s = "2030-01-15T10:00:00.000Z" THEN 20300115 ELSE 20310601
IsISO8601(s) == s \in ISODates

\* mongoose's cast of a Boolean path / validator's isBoolean
BooleanStrings == {"true", "false", "1", "0"}
IsBoolean(s) == s \in BooleanStrings
CastBoolean(s) == s \in {"true", "1"}

\* validator's isInt on the decimal strings the requests use
IntStrings == {"0", "1", "2", "3", "100", "101"}
ParseInt(s) == CASE s = "0" -> 0 [] s = "1" -> 1 [] s = "2" -> 2 [] s = "3" -> 3
                 [] s = "100" -> 100 [] OTHER -> 101
IsInt(s, lo, hi) == s \in IntStrings /\ ParseInt(s) >= lo /\ ParseInt(s) <= hi

\* Math.ceil(a / b) for a >= 0, b >= 1
Ceil(a, b) == (a + b - 1) \div b

\* ------------------------------------------------------- request inputs
\* A JSON body / query string: `has` is the set of keys that are present
\* (not undefined); the other fields carry the values of the present keys.
MkBody(has, title, description, priority, dueDate, tags, completed) ==
  [has |-> has, title |-> title, description |-> description, priority |-> priority,
   dueDate |-> dueDate, tags |-> tags, completed |-> completed]

\* a body that carries a user field as well
WithUser(b, u) ==
  [f \in DOMAIN b \cup {"user"} |->
     IF f = "user" THEN u ELSE IF f = "has" THEN b.has \cup {"user"} ELSE b[f]]

ISO1 == "2030-01-15T10:00:00.000Z"
ISO2 == "2031-06-01T00:00:00.000Z"

CreateBodies ==
  { MkBody({"title"}, <<"a">>, <<>>, "medium", ISO1, <<>>, "false"),
    WithUser(MkBody({"title", "description", "priority", "dueDate", "tags", "completed"},
                    <<" ", "b", " ">>, <<"d">>, "high", ISO1, << <<"t">> >>, "true"),
             "u2"),
    MkBody({"title"}, <<" ">>, <<>>, "medium", ISO1, <<>>, "false"),
    MkBody({"description", "priority"}, <<>>, <<"d">>, "urgent", ISO1, <<>>, "false") }

UpdateBodies ==
  { WithUser(MkBody({"completed"}, <<>>, <<>>, "medium", ISO1, <<>>, "true"), "u1"),
    MkBody({"completed", "title"}, <<" ", "c">>, <<>>, "medium", ISO1, <<>>, "0"),
    WithUser(MkBody({"priority", "description", "dueDate", "tags"},
                    <<>>, <<"d", " ">>, "low", ISO2, << <<"t", " ">> >>, "false"),
             "u2"),
    MkBody({}, <<>>, <<>>, "medium", ISO1, <<>>, "false"),
    MkBody({"title", "completed"}, <<" ">>, <<>>, "medium", ISO1, <<>>, "yes") }

\* ------------------------------------------------------------ validation
\* todoValidation: title is required, the rest optional
ValidCreate(b) ==
  /\ Len(Trim(IF "title" \in b.has THEN b.title ELSE <<>>)) >= 1
  /\ Len(Trim(IF "title" \in b.has THEN b.title ELSE <<>>)) <= TitleMax
  /\ "description" \in b.has => Len(Trim(b.description)) <= DescMax
  /\ "priority" \in b.has => b.priority \in Priorities
  /\ "dueDate" \in b.has => IsISO8601(b.dueDate)
  /\ "tags" \in b.has => \A i \in 1..Len(b.tags) : Len(Trim(b.tags[i])) <= TagMax

\* updateTodoValidation: every field optional, completed a boolean
ValidUpdate(b) ==
  /\ "title" \in b.has => Len(Trim(b.title)) >= 1 /\ Len(Trim(b.title)) <= TitleMax
  /\ "description" \in b.has => Len(Trim(b.description)) <= DescMax
  /\ "priority" \in b.has => b.priority \in Priorities
  /\ "dueDate" \in b.has => IsISO8601(b.dueDate)
  /\ "tags" \in b.has => \A i \in 1..Len(b.tags) : Len(Trim(b.tags[i])) <= TagMax
  /\ "completed" \in b.has => IsBoolean(b.completed)

\* the sanitizers of the validation chains write the trimmed values back
Sanitize(b) ==
  [b EXCEPT !.title = Trim(b.title), !.description = Trim(b.description),
            !.tags = TrimAll(b.tags)]

\* ------------------------------------------------------- authentication
\* middleware/auth authenticate: the user of a valid bearer token
Authenticate(tok) ==
  IF \E u \in Users : TokenOf[u] = tok
    THEN CHOOSE u \in Users : TokenOf[u] = tok
    ELSE NoUser

\* the chains with the validators ahead of the authentication
ChainValidateFirst(route) ==
  CASE route \in {"list", "create", "put"} -> <<"validate", "authenticate", "handler">>
    [] OTHER -> <<"authenticate", "handler">>

\* The middleware chain of each route, in the order router.<verb>() lists it.
Chain(route) ==
  CASE route \in {"list", "create", "put"} -> <<"authenticate", "validate", "handler">>
    [] OTHER -> <<"authenticate", "handler">>

\* Express runs the chain in order; a middleware that answers ends it.
RECURSIVE RunChain(_, _, _)
RunChain(chain, tok, valid) ==
  IF chain = <<>> THEN 500
  ELSE IF Head(chain) = "authenticate" /\ Authenticate(tok) = NoUser THEN 401
  ELSE IF Head(chain) = "validate" /\ ~valid THEN 400
  ELSE IF Head(chain) = "handler" THEN 0
  ELSE RunChain(Tail(chain), tok, valid)

Gate(route, tok, valid) == RunChain(Chain(route), tok, valid)

\* ------------------------------------------------------------------ state
VARIABLES
  todos,     \* the todos collection: _id -> document
  nextId,    \* the next ObjectId the driver generates
  now,       \* the clock read by new Date() and the timestamps plugin
  inflight,  \* requests between their two store operations
  resp,      \* the response the last step sent, if it sent one
  hist,      \* history: the last two successful toggles, oldest first
  deleted    \* history: the ids whose DELETE /:id was answered 200

vars == <<todos, nextId, now, inflight, resp, hist, deleted>>

Slots == 1..MaxInflight
Idle == [route |-> "idle"]
NoTodo == [id |-> 0]

Ids == DOMAIN todos

Response(route, tok, id, status, touched, todo, data) ==
  [route |-> route, token |-> tok, id |-> id, status |-> status,
   st |-> IF status \in {200, 201} THEN "success" ELSE "error",
   touched |-> touched, todo |-> todo, data |-> data]

\* the answer of a middleware that ends the chain (401, 400)
Rejected(route, tok, id, status) ==
  Response(route, tok, id, status, FALSE, NoTodo, <<>>)

NotFound(route, tok, id) ==
  Response(route, tok, id, 404, TRUE, NoTodo, <<"Todo not found">>)

\* a step that sends no response
NoResponse == Response("none", BadToken, 0, 0, FALSE, NoTodo, <<>>)

Init ==
  /\ todos = <<>>
  /\ nextId = 1
  /\ now = 1
  /\ inflight = [s \in Slots |-> Idle]
  /\ resp = NoResponse
  /\ hist = <<>>
  /\ deleted = {}

\* ---------------------------------------------------------- store queries
\* the lookup by id alone, without the owner in the filter
FindOneById(id, userId) ==
  IF id \in Ids THEN todos[id] ELSE NoTodo

\* findOne({ _id: id, user: userId })
FindOne(id, userId) ==
  IF id \in Ids /\ todos[id].user = userId THEN todos[id] ELSE NoTodo

\* the bulk delete without the owner in its filter
DeleteManyCompletedOfAll(userId) ==
  {i \in Ids : todos[i].completed}

\* deleteMany({ user: userId, completed: true }): the ids it removes
DeleteManyCompleted(userId) ==
  {i \in Ids : todos[i].user = userId /\ todos[i].completed}

\* a delete that finds its documents and removes none
RemoveNothing(ids) == todos

\* the collection without the documents a delete matched
Remove(ids) == [i \in Ids \ ids |-> todos[i]]

Count(S) == Cardinality(S)

\* the aggregate whose pending counter counts the completed todos too
GetUserStatsPendingAll(userId) ==
  LET m == {i \in Ids : todos[i].user = userId} IN
  IF m = {} THEN <<>>
  ELSE << [total |-> Cardinality(m),
           completed |-> Cardinality({i \in m : todos[i].completed}),
           pending |-> Cardinality(m),
           highPriority |-> Cardinality({i \in m : todos[i].priority = "high"}),
           mediumPriority |-> Cardinality({i \in m : todos[i].priority = "medium"}),
           lowPriority |-> Cardinality({i \in m : todos[i].priority = "low"})] >>

\* getUserStats: $match on user, one $group over the matched documents
GetUserStats(userId) ==
  LET m == {i \in Ids : todos[i].user = userId} IN
  IF m = {} THEN <<>>
  ELSE << [total |-> Count(m),
           completed |-> Count({i \in m : todos[i].completed}),
           pending |-> Count({i \in m : ~todos[i].completed}),
           highPriority |-> Count({i \in m : todos[i].priority = "high"}),
           mediumPriority |-> Count({i \in m : todos[i].priority = "medium"}),
           lowPriority |-> Count({i \in m : todos[i].priority = "low"})] >>

ZeroStats ==
  [total |-> 0, completed |-> 0, pending |-> 0,
   highPriority |-> 0, mediumPriority |-> 0, lowPriority |-> 0]

\* ------------------------------------------------------------ handlers
\* a create that passes the body's completed on to the document
NewTodoTakesCompleted(b, userId) ==
  [id |-> nextId,
   title |-> Trim(b.title),
   description |-> IF "description" \in b.has THEN Trim(b.description) ELSE <<>>,
   completed |-> IF "completed" \in b.has THEN CastBoolean(b.completed) ELSE FALSE,
   priority |-> IF "priority" \in b.has THEN b.priority ELSE "medium",
   dueDate |-> IF "dueDate" \in b.has THEN CastDate(b.dueDate) ELSE NoDate,
   tags |-> IF "tags" \in b.has THEN TrimAll(b.tags) ELSE <<>>,
   user |-> userId,
   completedAt |-> NoDate,
   createdAt |-> now,
   updatedAt |-> now,
   v |-> 0]

\* the document Todo.create() inserts for POST /api/todos
NewTodo(b, userId) ==
  [id |-> nextId,
   title |-> Trim(b.title),
   description |-> IF "description" \in b.has THEN Trim(b.description) ELSE <<>>,
   completed |-> FALSE,
   priority |-> IF "priority" \in b.has THEN b.priority ELSE "medium",
   dueDate |-> IF "dueDate" \in b.has THEN CastDate(b.dueDate) ELSE NoDate,
   tags |-> IF "tags" \in b.has THEN TrimAll(b.tags) ELSE <<>>,
   user |-> userId,
   completedAt |-> NoDate,
   createdAt |-> now,
   updatedAt |-> now,
   v |-> 0]

\* POST /api/todos
Create(tok, body) ==
  LET g == Gate("create", tok, ValidCreate(body))
      b == Sanitize(body)
      t == NewTodo(b, Authenticate(tok))
  IN IF g # 0
       THEN /\ resp' = Rejected("create", tok, 0, g)
            /\ UNCHANGED <<todos, nextId, now, inflight, hist, deleted>>
       ELSE /\ nextId <= MaxTodos
            /\ now < MaxClock
            /\ todos' = [i \in Ids \cup {nextId} |-> IF i = nextId THEN t ELSE todos[i]]
            /\ nextId' = nextId + 1
            /\ now' = now + 1
            /\ resp' = Response("create", tok, nextId, 201, TRUE, t, <<>>)
            /\ UNCHANGED <<inflight, hist, deleted>>

\* GET /api/todos/:id
Get(tok, id) ==
  LET g == Gate("get", tok, TRUE)
      t == FindOne(id, Authenticate(tok))
  IN /\ resp' = IF g # 0 THEN Rejected("get", tok, id, g)
                ELSE IF t = NoTodo THEN NotFound("get", tok, id)
                ELSE Response("get", tok, id, 200, TRUE, t, <<>>)
     /\ UNCHANGED <<todos, nextId, now, inflight, hist, deleted>>

\* DELETE /api/todos/:id : findOneAndDelete({ _id, user })
Delete(tok, id) ==
  LET g == Gate("delete", tok, TRUE)
      t == FindOne(id, Authenticate(tok))
  IN /\ resp' = IF g # 0 THEN Rejected("delete", tok, id, g)
                ELSE IF t = NoTodo THEN NotFound("delete", tok, id)
                ELSE Response("delete", tok, id, 200, TRUE, NoTodo, <<>>)
     /\ todos' = IF g = 0 /\ t # NoTodo THEN Remove({id}) ELSE todos
     /\ deleted' = IF g = 0 /\ t # NoTodo THEN deleted \cup {id} ELSE deleted
     /\ UNCHANGED <<nextId, now, inflight, hist>>

\* DELETE /api/todos : deleteMany({ user, completed: true })
DeleteCompleted(tok) ==
  LET g == Gate("deleteCompleted", tok, TRUE)
      gone == DeleteManyCompleted(Authenticate(tok))
  IN /\ resp' = IF g # 0 THEN Rejected("deleteCompleted", tok, 0, g)
                ELSE Response("deleteCompleted", tok, 0, 200, TRUE, NoTodo,
                              [deletedCount |-> Count(gone)])
     /\ todos' = IF g = 0 THEN Remove(gone) ELSE todos
     /\ UNCHANGED <<nextId, now, inflight, hist, deleted>>

\* GET /api/todos/stats
Stats(tok) ==
  LET g == Gate("stats", tok, TRUE)
      stats == GetUserStats(Authenticate(tok))
  IN /\ resp' = IF g # 0 THEN Rejected("stats", tok, 0, g)
                ELSE Response("stats", tok, 0, 200, TRUE, NoTodo,
                              IF Len(stats) > 0 THEN stats[1] ELSE ZeroStats)
     /\ UNCHANGED <<todos, nextId, now, inflight, hist, deleted>>

\* --------------------------------------------------- document and save
Fields == {"title", "description", "priority", "dueDate", "tags", "completed",
           "user", "completedAt", "updatedAt"}

\* this.isModified(f): the in-memory document differs from the one loaded
IsModified(doc, loaded, f) == doc[f] # loaded[f]

\* the assignments without the undefined checks: an absent field is reset
AssignResetsAbsent(doc, b) ==
  [doc EXCEPT
     !.title = IF "title" \in b.has THEN Trim(b.title) ELSE @,
     !.description = IF "description" \in b.has THEN Trim(b.description) ELSE <<>>,
     !.priority = IF "priority" \in b.has THEN b.priority ELSE "medium",
     !.dueDate = IF "dueDate" \in b.has THEN CastDate(b.dueDate) ELSE NoDate,
     !.tags = IF "tags" \in b.has THEN TrimAll(b.tags) ELSE <<>>,
     !.completed = IF "completed" \in b.has THEN CastBoolean(b.completed) ELSE @]

\* the assignments taken from every key of the body, user included
AssignTakesUser(doc, b) ==
  [doc EXCEPT
     !.title = IF "title" \in b.has THEN Trim(b.title) ELSE @,
     !.description = IF "description" \in b.has THEN Trim(b.description) ELSE @,
     !.priority = IF "priority" \in b.has THEN b.priority ELSE @,
     !.dueDate = IF "dueDate" \in b.has THEN CastDate(b.dueDate) ELSE @,
     !.tags = IF "tags" \in b.has THEN TrimAll(b.tags) ELSE @,
     !.completed = IF "completed" \in b.has THEN CastBoolean(b.completed) ELSE @,
     !.user = IF "user" \in b.has THEN b.user ELSE @]

\* the assignments of the PUT handler, each cast by its schema path
Assign(doc, b) ==
  [doc EXCEPT
     !.title = IF "title" \in b.has THEN Trim(b.title) ELSE @,
     !.description = IF "description" \in b.has THEN Trim(b.description) ELSE @,
     !.priority = IF "priority" \in b.has THEN b.priority ELSE @,
     !.dueDate = IF "dueDate" \in b.has THEN CastDate(b.dueDate) ELSE @,
     !.tags = IF "tags" \in b.has THEN TrimAll(b.tags) ELSE @,
     !.completed = IF "completed" \in b.has THEN CastBoolean(b.completed) ELSE @]

\* the hook without its else-branch: completedAt is never cleared
PreSaveNeverClears(doc, loaded) ==
  IF IsModified(doc, loaded, "completed") /\ doc.completed /\ doc.completedAt = NoDate
    THEN [doc EXCEPT !.completedAt = now]
  ELSE doc

\* todoSchema.pre('save')
PreSave(doc, loaded) ==
  IF IsModified(doc, loaded, "completed") /\ doc.completed /\ doc.completedAt = NoDate
    THEN [doc EXCEPT !.completedAt = now]
  ELSE IF IsModified(doc, loaded, "completed") /\ ~doc.completed
    THEN [doc EXCEPT !.completedAt = NoDate]
  ELSE doc

\* a toggle that marks the todo completed instead of flipping the flag
ToggleCompletionSetsTrue(doc) ==
  LET d == [doc EXCEPT !.completed = TRUE] IN
  IF d.completedAt = NoDate THEN [d EXCEPT !.completedAt = now] ELSE d

\* todoSchema.methods.toggleCompletion, up to its call of save()
ToggleCompletion(doc) ==
  LET d == [doc EXCEPT !.completed = ~doc.completed] IN
  IF d.completed /\ d.completedAt = NoDate THEN [d EXCEPT !.completedAt = now]
  ELSE IF ~d.completed THEN [d EXCEPT !.completedAt = NoDate]
  ELSE d

\* timestamps: true -- a save of a modified document stamps updatedAt
Stamp(doc, loaded) ==
  IF \E f \in Fields : IsModified(doc, loaded, f) THEN [doc EXCEPT !.updatedAt = now] ELSE doc

\* the paths save() sends in its $set
Delta(doc, loaded) == {f \in Fields : IsModified(doc, loaded, f)}

\* an overwritten array makes save() match on, and increment, the version key
Versioned(doc, loaded) == "tags" \in Delta(doc, loaded)

\* 0 when save() finds its document, else the status of the error it throws
SaveError(doc, loaded) ==
  IF doc.id \notin Ids THEN 500
  ELSE IF Versioned(doc, loaded) /\ todos[doc.id].v # loaded.v THEN 500
  ELSE 0

\* the stored document after updateOne({ _id }, { $set: delta })
Written(doc, loaded) ==
  LET cur == todos[doc.id] IN
  [f \in DOMAIN cur |->
     IF f \in Delta(doc, loaded) THEN doc[f]
     ELSE IF f = "v" /\ Versioned(doc, loaded) THEN cur.v + 1
     ELSE cur[f]]

\* the in-memory document after a successful save()
Saved(doc, loaded) ==
  IF Versioned(doc, loaded) THEN [doc EXCEPT !.v = loaded.v + 1] ELSE doc

FreeSlot == CHOOSE s \in Slots : inflight[s] = Idle /\ \A r \in Slots : inflight[r] = Idle => s <= r

HasFreeSlot == \E s \in Slots : inflight[s] = Idle

\* history of the completion state: what a toggle loaded, found and left
Completion(doc) == [completed |-> doc.completed, completedAt |-> doc.completedAt]

Remember(rec) == IF hist = <<>> THEN <<rec>> ELSE <<hist[Len(hist)], rec>>

\* the second store operation of an update or toggle: doc.save()
SaveStep(s, route, doc) ==
  LET r == inflight[s]
      d == Stamp(PreSave(doc, r.doc), r.doc)
      e == SaveError(d, r.doc)
  IN /\ inflight' = [inflight EXCEPT ![s] = Idle]
     /\ IF e # 0
          THEN /\ resp' = Response(route, r.token, r.id, e, TRUE, NoTodo, <<>>)
               /\ UNCHANGED <<todos, nextId, now, hist, deleted>>
          ELSE /\ Delta(d, r.doc) # {} => now < MaxClock
               /\ todos' = [todos EXCEPT ![r.id] = Written(d, r.doc)]
               /\ now' = IF Delta(d, r.doc) # {} THEN now + 1 ELSE now
               /\ resp' = Response(route, r.token, r.id, 200, TRUE, Saved(d, r.doc), <<>>)
               /\ hist' = IF route = "toggle"
                            THEN Remember([id |-> r.id,
                                           loaded |-> Completion(r.doc),
                                           before |-> Completion(todos[r.id]),
                                           after |-> Completion(Written(d, r.doc))])
                            ELSE hist
               /\ UNCHANGED <<nextId, deleted>>

\* PUT /api/todos/:id, up to findOne
PutFind(tok, id, body) ==
  LET g == Gate("put", tok, ValidUpdate(body))
      t == FindOne(id, Authenticate(tok))
  IN IF g # 0 \/ t = NoTodo
       THEN /\ resp' = IF g # 0 THEN Rejected("put", tok, id, g) ELSE NotFound("put", tok, id)
            /\ UNCHANGED <<todos, nextId, now, inflight, hist, deleted>>
       ELSE /\ HasFreeSlot
            /\ inflight' = [inflight EXCEPT ![FreeSlot] =
                 [route |-> "put", token |-> tok, id |-> id, sent |-> body,
                  body |-> Sanitize(body), doc |-> t]]
            /\ resp' = NoResponse
            /\ UNCHANGED <<todos, nextId, now, hist, deleted>>

\* PUT /api/todos/:id, from the field assignments on
PutSave(s) ==
  /\ inflight[s].route = "put"
  /\ SaveStep(s, "put", Assign(inflight[s].doc, inflight[s].body))

\* PATCH /api/todos/:id/toggle, up to findOne
ToggleFind(tok, id) ==
  LET g == Gate("toggle", tok, TRUE)
      t == FindOne(id, Authenticate(tok))
  IN IF g # 0 \/ t = NoTodo
       THEN /\ resp' = IF g # 0 THEN Rejected("toggle", tok, id, g) ELSE NotFound("toggle", tok, id)
            /\ UNCHANGED <<todos, nextId, now, inflight, hist, deleted>>
       ELSE /\ HasFreeSlot
            /\ inflight' = [inflight EXCEPT ![FreeSlot] =
                 [route |-> "toggle", token |-> tok, id |-> id, doc |-> t]]
            /\ resp' = NoResponse
            /\ UNCHANGED <<todos, nextId, now, hist, deleted>>

\* PATCH /api/todos/:id/toggle: todo.toggleCompletion()
ToggleSave(s) ==
  /\ inflight[s].route = "toggle"
  /\ SaveStep(s, "toggle", ToggleCompletion(inflight[s].doc))

\* ------------------------------------------------------------------ list
Undefined == "undefined"

MkQuery(page, limit, completed, priority, sortBy, sortOrder) ==
  [page |-> page, limit |-> limit, completed |-> completed, priority |-> priority,
   sortBy |-> sortBy, sortOrder |-> sortOrder]

\* paging alone; the filters, with and without paging; the sort options;
\* and queries the validators reject
ListQueries ==
  { MkQuery(p, l, Undefined, Undefined, Undefined, Undefined) :
      p \in {Undefined, "1", "2", "3"}, l \in {Undefined, "1", "2", "100"} }
  \cup
  { MkQuery(p, l, c, pr, Undefined, Undefined) :
      p \in {Undefined, "2"}, l \in {Undefined, "1"},
      c \in {Undefined, "true", "false", "1", "0"}, pr \in {Undefined, "high", "low"} }
  \cup
  { MkQuery(Undefined, Undefined, Undefined, Undefined, sb, so) :
      sb \in SortFields \cup {Undefined}, so \in SortOrders \cup {Undefined} }
  \cup
  { MkQuery("0", Undefined, Undefined, Undefined, Undefined, Undefined),
    MkQuery(Undefined, "101", Undefined, Undefined, Undefined, Undefined),
    MkQuery(Undefined, Undefined, "yes", Undefined, Undefined, Undefined),
    MkQuery(Undefined, Undefined, Undefined, "urgent", Undefined, Undefined),
    MkQuery(Undefined, Undefined, Undefined, Undefined, "user", "up") }

ValidList(q) ==
  /\ q.page # Undefined => IsInt(q.page, 1, 101)
  /\ q.limit # Undefined => IsInt(q.limit, 1, LimitMax)
  /\ q.completed # Undefined => IsBoolean(q.completed)
  /\ q.priority # Undefined => q.priority \in Priorities
  /\ q.sortBy # Undefined => q.sortBy \in SortFields
  /\ q.sortOrder # Undefined => q.sortOrder \in SortOrders

\* JavaScript's conversion of a query value in an arithmetic or comparison
ToNumber(s) == ParseInt(s)

\* the options object the list handler builds
Options(q) ==
  [page |-> IF q.page # Undefined THEN ParseInt(q.page) ELSE DefaultPage,
   limit |-> IF q.limit # Undefined THEN ParseInt(q.limit) ELSE DefaultLimit,
   hasCompleted |-> q.completed # Undefined,
   completed |-> q.completed = "true",
   priority |-> q.priority,
   sortBy |-> IF q.sortBy # Undefined THEN q.sortBy ELSE "createdAt",
   sortOrder |-> IF q.sortOrder # Undefined THEN q.sortOrder ELSE "desc"]

\* d1 sorts strictly before d2 on the field, ascending (null dates first)
Before(d1, d2, f) ==
  CASE f = "title" -> StrLess(d1.title, d2.title)
    [] f = "priority" -> PriorityRank(d1.priority) < PriorityRank(d2.priority)
    [] f = "dueDate" -> d1.dueDate < d2.dueDate
    [] f = "updatedAt" -> d1.updatedAt < d2.updatedAt
    [] OTHER -> d1.createdAt < d2.createdAt

\* every order of the ids that find().sort() may return (ties in any order)
Sorted(S, f, order) ==
  { p \in [1..Cardinality(S) -> S] :
      /\ \A i, j \in 1..Cardinality(S) : i # j => p[i] # p[j]
      /\ \A i, j \in 1..Cardinality(S) : i < j =>
           IF order = "desc" THEN ~Before(todos[p[i]], todos[p[j]], f)
                             ELSE ~Before(todos[p[j]], todos[p[i]], f) }

\* .limit(limit).skip((page - 1) * limit)
Page(p, page, limit) ==
  LET skip == (page - 1) * limit
      last == IF skip + limit < Len(p) THEN skip + limit ELSE Len(p)
  IN IF skip >= Len(p) THEN <<>> ELSE SubSeq(p, skip + 1, last)

\* the filter of getTodosByUser
Matching(userId, o) ==
  {i \in Ids : /\ todos[i].user = userId
               /\ o.hasCompleted => todos[i].completed = o.completed
               /\ o.priority # Undefined => todos[i].priority = o.priority}

\* todoSchema.statics.getTodosByUser: the results it may return
GetTodosByUser(userId, o) ==
  { [k \in DOMAIN Page(p, o.page, o.limit) |-> todos[Page(p, o.page, o.limit)[k]]] :
      p \in Sorted(Matching(userId, o), o.sortBy, o.sortOrder) }

\* GET /api/todos, up to getTodosByUser
ListFind(tok, q) ==
  LET g == Gate("list", tok, ValidList(q)) IN
  IF g # 0
    THEN /\ resp' = Rejected("list", tok, 0, g)
         /\ UNCHANGED <<todos, nextId, now, inflight, hist, deleted>>
    ELSE /\ HasFreeSlot
         /\ \E found \in GetTodosByUser(Authenticate(tok), Options(q)) :
              inflight' = [inflight EXCEPT ![FreeSlot] =
                [route |-> "list", token |-> tok, query |-> q, found |-> found]]
         /\ resp' = NoResponse
         /\ UNCHANGED <<todos, nextId, now, hist, deleted>>

\* countDocuments({ user: userId })
CountDocuments(userId) == Count({i \in Ids : todos[i].user = userId})

\* the pagination whose hasNextPage is off by one page
PaginationOffByOne(q, totalCount) ==
  LET page == IF q.page # Undefined THEN ToNumber(q.page) ELSE DefaultPage
      limit == IF q.limit # Undefined THEN ToNumber(q.limit) ELSE DefaultLimit
      totalPages == Ceil(totalCount, limit)
  IN [currentPage |-> IF q.page # Undefined THEN ParseInt(q.page) ELSE DefaultPage,
      totalPages |-> totalPages,
      totalCount |-> totalCount,
      hasNextPage |-> page <= totalPages,
      hasPrevPage |-> page > 1]

Pagination(q, totalCount) ==
  LET page == IF q.page # Undefined THEN ToNumber(q.page) ELSE DefaultPage
      limit == IF q.limit # Undefined THEN ToNumber(q.limit) ELSE DefaultLimit
      totalPages == Ceil(totalCount, limit)
  IN [currentPage |-> IF q.page # Undefined THEN ParseInt(q.page) ELSE DefaultPage,
      totalPages |-> totalPages,
      totalCount |-> totalCount,
      hasNextPage |-> page < totalPages,
      hasPrevPage |-> page > 1]

\* the count taken over the todos the filters match
ListCountFiltered(s) ==
  LET r == inflight[s] IN
  /\ r.route = "list"
  /\ inflight' = [inflight EXCEPT ![s] = Idle]
  /\ resp' = Response("list", r.token, 0, 200, TRUE, NoTodo,
                      [todos |-> r.found, query |-> r.query,
                       pagination |->
                         Pagination(r.query,
                                    Count(Matching(Authenticate(r.token), Options(r.query))))])
  /\ UNCHANGED <<todos, nextId, now, hist, deleted>>

\* GET /api/todos, from countDocuments on
ListCount(s) ==
  LET r == inflight[s] IN
  /\ r.route = "list"
  /\ inflight' = [inflight EXCEPT ![s] = Idle]
  /\ resp' = Response("list", r.token, 0, 200, TRUE, NoTodo,
                      [todos |-> r.found, query |-> r.query,
                       pagination |-> Pagination(r.query, CountDocuments(Authenticate(r.token)))])
  /\ UNCHANGED <<todos, nextId, now, hist, deleted>>

\* --------------------------------------------------------- specifications
\* no request is between its two store operations
Quiet == \A s \in Slots : inflight[s] = Idle

\* the inputs of the concurrent runs: a subset of the bodies and queries
SomeCreateBodies ==
  {b \in CreateBodies : b.has = {"title"}}
SomeUpdateBodies ==
  {b \in UpdateBodies : "completed" \in b.has}
SomeListQueries ==
  {q \in ListQueries : q.page = Undefined /\ q.sortBy = Undefined /\ q.priority = Undefined
                       /\ q.limit \in {"1", "101"} /\ q.completed \in {Undefined, "true"}}

\* The client takes the response; the model observes one response at a time.
Receive ==
  /\ resp # NoResponse
  /\ resp' = NoResponse
  /\ UNCHANGED <<todos, nextId, now, inflight, hist, deleted>>

Ready == resp = NoResponse

\* the part of the state space the concurrent runs explore
Within == nextId' <= ConcurrentTodos + 1 /\ now' <= ConcurrentClock

\* Requests arrive at any time and their steps interleave freely.
Next ==
  \/ Ready /\ (\E tok \in Tokens, b \in SomeCreateBodies : Create(tok, b)) /\ Within
  \/ Ready /\ (\E tok \in Tokens, id \in TodoIds : Get(tok, id)) /\ Within
  \/ Ready /\ (\E tok \in Tokens, id \in TodoIds : Delete(tok, id)) /\ Within
  \/ Ready /\ (\E tok \in Tokens : DeleteCompleted(tok)) /\ Within
  \/ Ready /\ (\E tok \in Tokens : Stats(tok)) /\ Within
  \/ Ready /\ (\E tok \in Tokens, id \in TodoIds, b \in SomeUpdateBodies : PutFind(tok, id, b)) /\ Within
  \/ Ready /\ (\E s \in Slots : PutSave(s)) /\ Within
  \/ Ready /\ (\E tok \in Tokens, id \in TodoIds : ToggleFind(tok, id)) /\ Within
  \/ Ready /\ (\E s \in Slots : ToggleSave(s)) /\ Within
  \/ Ready /\ (\E tok \in Tokens, q \in SomeListQueries : ListFind(tok, q)) /\ Within
  \/ Ready /\ (\E s \in Slots : ListCount(s)) /\ Within
  \/ Receive

Spec == Init /\ [][Next]_vars

\* Requests are served one after another, with every body and query.
SerialNext ==
  \/ Ready /\ Quiet /\ \E tok \in Tokens, b \in CreateBodies : Create(tok, b)
  \/ Ready /\ Quiet /\ \E tok \in Tokens, id \in TodoIds : Get(tok, id)
  \/ Ready /\ Quiet /\ \E tok \in Tokens, id \in TodoIds : Delete(tok, id)
  \/ Ready /\ Quiet /\ \E tok \in Tokens : DeleteCompleted(tok)
  \/ Ready /\ Quiet /\ \E tok \in Tokens : Stats(tok)
  \/ Ready /\ Quiet /\ \E tok \in Tokens, id \in TodoIds, b \in UpdateBodies : PutFind(tok, id, b)
  \/ Ready /\ \E s \in Slots : PutSave(s)
  \/ Ready /\ Quiet /\ \E tok \in Tokens, id \in TodoIds : ToggleFind(tok, id)
  \/ Ready /\ \E s \in Slots : ToggleSave(s)
  \/ Ready /\ Quiet /\ \E tok \in Tokens, q \in ListQueries : ListFind(tok, q)
  \/ Ready /\ \E s \in Slots : ListCount(s)
  \/ Receive

SerialSpec == Init /\ [][SerialNext]_vars

\* ================================================================ claims
\* the request is authenticated and its id is a stored todo of another user
Foreign(tok, id) ==
  /\ Authenticate(tok) \in Users
  /\ id \in Ids
  /\ todos[id].user # Authenticate(tok)

\* C1: in every reachable state, under every interleaving of the requests'
\* steps, each stored todo has completedAt non-null iff completed is true.
C1_CompletedAtIffCompleted ==
  \A i \in Ids : (todos[i].completedAt # NoDate) <=> todos[i].completed

\* a completed todo left by a toggle that saved over a stale snapshot
C1_Witness ==
  \E i \in Ids :
    /\ todos[i].completed /\ todos[i].completedAt # NoDate
    /\ Len(hist) = 2 /\ hist[2].id = i /\ hist[2].loaded # hist[2].before

\* the routes that address one todo by its id
ItemRoutes == {"get", "put", "toggle", "delete"}

\* the answer to an update of a todo the caller cannot see: 404 when the
\* body passes validation, 400 when it does not
HiddenFromUpdate(tok, id) ==
  /\ resp'.status \in {400, 404}
  /\ \A b \in UpdateBodies :
       PutFind(tok, id, b) =>
         resp' = IF ValidUpdate(b) THEN NotFound("put", tok, id)
                                   ELSE Rejected("put", tok, id, 400)

\* C2 as amended: with another user's identity and the todo's exact id,
\* get, toggle and delete answer 404 'Todo not found', and update answers 404
\* when its body passes validation and 400 when it does not -- in each case
\* the answer to the same request for an id that does not exist; the store
\* is left unchanged, no such request gets as far as a save, and a list
\* answered to a user holds only that user's todos.
C2_ForeignTodoIsNotFound ==
  [][ /\ (resp' # NoResponse /\ resp'.route \in ItemRoutes
            /\ Foreign(resp'.token, resp'.id)) =>
           /\ todos' = todos
           /\ resp'.route # "put" =>
                resp' = NotFound(resp'.route, resp'.token, resp'.id)
           /\ resp'.route = "put" => HiddenFromUpdate(resp'.token, resp'.id)
      /\ \A s \in Slots :
           inflight'[s].route \in {"put", "toggle"} =>
             inflight'[s].doc.user = Authenticate(inflight'[s].token)
      /\ (resp'.route = "list" /\ resp'.status = 200) =>
           \A k \in DOMAIN resp'.data.todos :
             resp'.data.todos[k].user = Authenticate(resp'.token)
    ]_vars

\* C2 as stated: every such get, update, toggle and delete answers 404.
C2_ForeignAlways404 ==
  (resp.route \in {"get", "put", "toggle", "delete"} /\ Foreign(resp.token, resp.id))
    => resp.status = 404

\* another user's update of a stored todo was answered 404
C2_Witness ==
  /\ resp.route = "put" /\ resp.status = 404
  /\ Foreign(resp.token, resp.id)

\* the last two toggles hit the same todo one after the other: each saved
\* what it had loaded, and the second loaded what the first had left
SuccessiveToggles ==
  /\ Len(hist) = 2
  /\ hist[1].id = hist[2].id
  /\ hist[1].loaded = hist[1].before
  /\ hist[2].loaded = hist[1].after
  /\ hist[2].before = hist[1].after

\* C3 as amended: two successive toggles of a todo return it to its original
\* completed state; completedAt is left null when that state is incomplete,
\* and is set again, to the time of the second toggle, when it is completed.
C3_TwoTogglesRestoreCompleted ==
  SuccessiveToggles =>
    /\ hist[2].after.completed = hist[1].before.completed
    /\ ~hist[1].before.completed => hist[2].after.completedAt = NoDate
    /\ hist[1].before.completed =>
         /\ hist[2].after.completedAt # NoDate
         /\ hist[2].after.completedAt > hist[1].before.completedAt

\* C3 as stated: the original completed state, and completedAt null.
C3_TwoTogglesNullCompletedAt ==
  SuccessiveToggles =>
    /\ hist[2].after.completed = hist[1].before.completed
    /\ hist[2].after.completedAt = NoDate

\* a completed todo was toggled twice, and the second toggle was just answered
C3_Witness ==
  /\ SuccessiveToggles
  /\ hist[1].before.completed
  /\ resp.route = "toggle" /\ resp.status = 200 /\ resp.id = hist[2].id

\* C4: delete-all-completed by a user removes exactly that user's completed
\* todos, leaves every other todo unchanged, and answers 200 with deletedCount
\* the number of todos removed (0 included).
C4_DeleteCompletedFrame ==
  [][ \A tok \in Tokens :
        (resp'.route = "deleteCompleted" /\ Authenticate(tok) \in Users
           /\ DeleteCompleted(tok)) =>
          /\ \A i \in Ids :
               i \notin DOMAIN todos' <=>
                 (todos[i].user = Authenticate(tok) /\ todos[i].completed)
          /\ \A i \in DOMAIN todos' : i \in Ids /\ todos'[i] = todos[i]
          /\ resp'.status = 200 /\ resp'.st = "success"
          /\ resp'.data.deletedCount = Cardinality(Ids \ DOMAIN todos')
    ]_vars

\* a delete-all-completed removed a todo and left another one in the store
C4_Witness ==
  /\ resp.route = "deleteCompleted" /\ resp.status = 200
  /\ resp.data.deletedCount = 1
  /\ Ids # {}

\* the todos a user owns
Owned(u) == {i \in Ids : todos[i].user = u}

\* C5: stats for a user counts exactly that user's todos: total, completed
\* and pending, and one counter per priority; so total = completed + pending
\* = high + medium + low, and all six are 0 for a user without todos.
C5_StatsCountOwnTodos ==
  (resp.route = "stats" /\ resp.status = 200) =>
    LET u == Authenticate(resp.token)
        d == resp.data
    IN /\ d.total = Cardinality(Owned(u))
       /\ d.completed = Cardinality({i \in Owned(u) : todos[i].completed})
       /\ d.pending = Cardinality({i \in Owned(u) : ~todos[i].completed})
       /\ d.highPriority = Cardinality({i \in Owned(u) : todos[i].priority = "high"})
       /\ d.mediumPriority = Cardinality({i \in Owned(u) : todos[i].priority = "medium"})
       /\ d.lowPriority = Cardinality({i \in Owned(u) : todos[i].priority = "low"})
       /\ d.total = d.completed + d.pending
       /\ d.total = d.highPriority + d.mediumPriority + d.lowPriority
       /\ Owned(u) = {} => d = ZeroStats

\* stats was answered to a user who owns a completed todo while another
\* user owns a todo too
C5_Witness ==
  /\ resp.route = "stats" /\ resp.status = 200
  /\ resp.data.total = 1 /\ resp.data.completed = 1
  /\ Cardinality(Ids) = 2

\* C6: a list answered for page p and page size s holds at most s todos;
\* hasNextPage is true iff p < ceil(totalCount / s), that is iff p * s is
\* less than the totalCount of the same response; hasPrevPage iff p > 1.
C6_PageSizeAndNextPage ==
  (resp.route = "list" /\ resp.status = 200) =>
    LET q == resp.data.query
        p == IF q.page = Undefined THEN 1 ELSE ParseInt(q.page)
        s == IF q.limit = Undefined THEN 10 ELSE ParseInt(q.limit)
        pg == resp.data.pagination
    IN /\ p >= 1 /\ s >= 1 /\ s <= 100
       /\ Len(resp.data.todos) <= s
       /\ pg.hasNextPage <=> p * s < pg.totalCount
       /\ pg.hasPrevPage <=> p > 1

\* a full first page of size 1 was answered with a next page announced
C6_Witness ==
  /\ resp.route = "list" /\ resp.status = 200
  /\ resp.data.query.limit = "1" /\ resp.data.query.page = Undefined
  /\ Len(resp.data.todos) = 1
  /\ resp.data.pagination.hasNextPage
  /\ resp.data.pagination.totalCount = 2

\* C7: on every todo route a request without a valid bearer token is
\* answered 401 with status 'error', whatever its body or query; it neither
\* reads nor changes a todo, and it never gets as far as a store operation.
C7_GateBeforeValidationAndStore ==
  [][ /\ (resp' # NoResponse /\ Authenticate(resp'.token) = NoUser) =>
           /\ resp' = Rejected(resp'.route, resp'.token, resp'.id, 401)
           /\ resp'.st = "error" /\ ~resp'.touched
           /\ todos' = todos /\ inflight' = inflight
      /\ \A s \in Slots :
           inflight'[s] # Idle => Authenticate(inflight'[s].token) \in Users
      /\ \A i \in DOMAIN todos' : todos'[i].user \in Users
    ]_vars

\* an update of a stored todo without a valid token was answered 401
C7_Witness ==
  /\ resp.route = "put" /\ resp.status = 401 /\ resp.st = "error"
  /\ Authenticate(resp.token) = NoUser
  /\ resp.id \in Ids

\* the completedAt a save leaves, given the completed flag before and after
CompletedAtAfter(old, new) ==
  IF new.completed = old.completed THEN old.completedAt
  ELSE IF new.completed THEN now
  ELSE NoDate

StartedFor(i) ==
  /\ resp' # NoResponse /\ resp'.route \in ItemRoutes /\ resp'.id = i
  /\ Authenticate(resp'.token) \in Users
  /\ inflight' = inflight

\* C9 as amended: once DELETE /api/todos/:id has answered 200 the todo is
\* absent from the store in every later state; an authenticated get, toggle
\* or delete of that id started afterwards is answered 404, and so is an
\* authenticated update whose body passes validation (400 when it does not);
\* no later delete of the id is answered 200.
C9_DeletedStaysDeleted ==
  [][ \A i \in deleted :
        /\ i \notin Ids /\ i \notin DOMAIN todos'
        /\ \A s \in Slots :
             (inflight'[s] # inflight[s] /\ inflight'[s] # Idle) =>
               (inflight'[s].route = "list" \/ inflight'[s].id # i)
        /\ (StartedFor(i) /\ resp'.route # "put") =>
             resp' = NotFound(resp'.route, resp'.token, i)
        /\ (StartedFor(i) /\ resp'.route = "put") => HiddenFromUpdate(resp'.token, i)
    ]_vars

\* C9 as stated: every later get, update, toggle and delete is answered 404.
C9_DeletedAlways404 ==
  [][ \A i \in deleted :
        /\ i \notin Ids /\ i \notin DOMAIN todos'
        /\ StartedFor(i) => resp'.status = 404
    ]_vars

\* a second delete of a deleted todo was answered 404
C9_Witness ==
  /\ resp.route = "delete" /\ resp.status = 404
  /\ resp.id \in deleted
  /\ Authenticate(resp.token) \in Users

\* C10: a successful create answers 201 with a new todo that it stores: owned
\* by the caller, completed false and completedAt null whatever the body
\* says, priority 'medium', description '', dueDate null and tags [] when
\* the body leaves them out.
C10_CreateDefaults ==
  [][ \A tok \in Tokens, b \in CreateBodies :
        (resp'.route = "create" /\ resp'.st = "success" /\ Create(tok, b)) =>
          /\ resp'.status = 201
          /\ nextId \notin Ids
          /\ DOMAIN todos' = Ids \cup {nextId}
          /\ \A i \in Ids : todos'[i] = todos[i]
          /\ resp'.todo = todos'[nextId]
          /\ Authenticate(tok) \in Users
          /\ todos'[nextId].user = Authenticate(tok)
          /\ todos'[nextId].completed = FALSE
          /\ todos'[nextId].completedAt = NoDate
          /\ "priority" \notin b.has => todos'[nextId].priority = "medium"
          /\ "description" \notin b.has => todos'[nextId].description = <<>>
          /\ "dueDate" \notin b.has => todos'[nextId].dueDate = NoDate
          /\ "tags" \notin b.has => todos'[nextId].tags = <<>>
    ]_vars

\* a create whose body said completed: true was answered 201, the todo not
\* completed
C10_Witness ==
  /\ resp.route = "create" /\ resp.status = 201
  /\ resp.todo.priority = "high"
  /\ ~resp.todo.completed /\ resp.todo.completedAt = NoDate
  /\ resp.id \in Ids /\ todos[resp.id] = resp.todo

\* C11: every todo in a list answered to a valid request is owned by the
\* caller, has the priority of the priority filter when one is given, and has
\* completed equal to the boolean meaning of the completed query value when
\* one is given ('true' and '1' mean true, 'false' and '0' mean false).
C11_ListFiltersByBooleanMeaning ==
  (resp.route = "list" /\ resp.status = 200) =>
    LET q == resp.data.query IN
    \A k \in DOMAIN resp.data.todos :
      LET t == resp.data.todos[k] IN
      /\ t.user = Authenticate(resp.token)
      /\ q.priority # Undefined => t.priority = q.priority
      /\ q.completed # Undefined => t.completed = CastBoolean(q.completed)

\* C12: the totalCount of a list response is the number of todos the caller
\* owns, whatever the completed and priority filters; totalPages is the
\* least number of pages of the page size that hold totalCount todos; so
\* totalCount is never below the number of todos the filters match.
C12_TotalCountIgnoresFilters ==
  (resp.route = "list" /\ resp.status = 200) =>
    LET u == Authenticate(resp.token)
        q == resp.data.query
        s == IF q.limit = Undefined THEN 10 ELSE ParseInt(q.limit)
        pg == resp.data.pagination
    IN /\ pg.totalCount = Cardinality(Owned(u))
       /\ pg.totalPages * s >= pg.totalCount
       /\ (pg.totalPages - 1) * s < pg.totalCount
       /\ pg.totalCount >= Cardinality(Matching(u, Options(q)))

\* a filtered list was answered with totalCount above the number of matching
\* todos and hasNextPage true, while the next page of the filtered list is
\* empty
C12_Witness ==
  /\ resp.route = "list" /\ resp.status = 200
  /\ resp.data.query.completed = "true" /\ resp.data.query.limit = "1"
  /\ resp.data.query.page = Undefined
  /\ Len(resp.data.todos) = 1
  /\ resp.data.pagination.totalCount = 2
  /\ Cardinality(Matching(Authenticate(resp.token), Options(resp.data.query))) = 1
  /\ resp.data.pagination.hasNextPage
  /\ \A found \in GetTodosByUser(Authenticate(resp.token),
                                  Options([resp.data.query EXCEPT !.page = "2"])) :
       found = <<>>

\* C13: the owner of a todo never changes. A todo enters the store only by a
\* create answered 201, under a fresh id and owned by the authenticated
\* caller; every step -- update (also with a user field in its body), toggle,
\* delete, delete-all-completed, by any user -- leaves the user field of each
\* todo that stays in the store as it was; ids are never used again.
C13_OwnerNeverChanges ==
  [][ /\ \A i \in DOMAIN todos' :
           IF i \in Ids
             THEN todos'[i].user = todos[i].user
             ELSE /\ resp'.route = "create" /\ resp'.status = 201
                  /\ i = nextId /\ nextId' = nextId + 1
                  /\ Authenticate(resp'.token) \in Users
                  /\ todos'[i].user = Authenticate(resp'.token)
      /\ nextId' >= nextId
      /\ \A i \in DOMAIN todos' : i < nextId'
    ]_vars

\* an update whose body carried another user's identity was answered 200 and
\* written, and the todo is still its creator's
C13_Witness ==
  \E b \in UpdateBodies :
    /\ "user" \in b.has /\ "priority" \in b.has
    /\ resp.route = "put" /\ resp.status = 200 /\ resp.id \in Ids
    /\ todos[resp.id].priority = b.priority
    /\ todos[resp.id].description = Trim(b.description)
    /\ todos[resp.id].tags = TrimAll(b.tags)
    /\ todos[resp.id].updatedAt = now - 1
    /\ todos[resp.id].user = Authenticate(resp.token)
    /\ todos[resp.id].user # b.user

\* the last two toggles answered 200 hit the same todo with no other write
\* between their saves, the first having loaded the todo as it then was and
\* the second having loaded it before or after the first one's save
PairedToggles ==
  /\ Len(hist) = 2
  /\ hist[1].id = hist[2].id
  /\ hist[1].loaded = hist[1].before
  /\ hist[2].before = hist[1].after
  /\ hist[2].loaded \in {hist[1].before, hist[1].after}

\* C14: no toggle is lost under concurrency. When two toggle requests on the
\* same todo are both answered 200, in whatever order their lookups and saves
\* interleave, the todo's completed flag ends equal to its value before the
\* two requests.
C14_NoToggleLost ==
  PairedToggles => hist[2].after.completed = hist[1].before.completed
====
